---- MODULE Spec2Model ----
(***************************************************************************)
(* A model of chalice/logs.py: LogRetriever.create_from_arn and the        *)
(* generator LogRetriever.retrieve_logs, which walks the pages of the      *)
(* CloudWatch "filter_log_events" paginator, optionally skips the messages *)
(* Lambda injects, normalises every other event in place and yields it,    *)
(* stopping once max_entries events have been shown.                       *)
(*                                                                         *)
(* Python values are tagged so that values of different Python types can   *)
(* be compared: an int n is [int |-> n], None is [none |-> TRUE], a        *)
(* datetime is [datetime |-> <<seconds, microseconds>>].  A str is a TLA+  *)
(* string; a dict is a function from its keys, so a dict that lacks a key  *)
(* lacks it in its DOMAIN.                                                 *)
(***************************************************************************)
EXTENDS Integers, Sequences, FiniteSets, TLC

(***************************************************************************)
(* Bounds of the model.                                                    *)
(***************************************************************************)
MaxPages == 2
MaxPageLen == 2
MaxK == 2
MaxSegments == 8

Streams == {1, 2}
SoloStreams == {1}

(***************************************************************************)
(* Python values.                                                          *)
(***************************************************************************)
PyInt(n) == [int |-> n]
PyNone == [none |-> TRUE]
IsInt(v) == "int" \in DOMAIN v
IsNone(v) == "none" \in DOMAIN v

Min(a, b) == IF a <= b THEN a ELSE b

\* s[i], 1-indexed, as a one-character string
CharAt(s, i) == SubSeq(s, i, i)

\* str.strip() with no argument removes these from both ends
Whitespace == {" ", "\t", "\n", "\r", "\f"}

\* msg.strip(): the substring from the first to the last non-whitespace character
Strip(s) ==
    LET keep == {i \in 1..Len(s) : CharAt(s, i) \notin Whitespace}
    IN  IF keep = {} THEN ""
        ELSE LET first == CHOOSE i \in keep : \A j \in keep : i <= j
                 last == CHOOSE i \in keep : \A j \in keep : j <= i
             IN  SubSeq(s, first, last)

\* s.startswith(p)
StartsWith(s, p) == Len(s) >= Len(p) /\ SubSeq(s, 1, Len(p)) = p

\* s.startswith((p1, p2, ...)): true when s starts with any prefix of the tuple
StartsWithAny(s, prefixes) == \E i \in 1..Len(prefixes) : StartsWith(s, prefixes[i])

\* s.find(c): the 0-based index of the first occurrence of c, or -1
Find(s, c) ==
    LET hits == {i \in 1..Len(s) : CharAt(s, i) = c}
    IN  IF hits = {} THEN -1
        ELSE (CHOOSE i \in hits : \A j \in hits : i <= j) - 1

\* s[lo:hi] for 0 <= lo <= hi: Python clips the slice to the string
Slice(s, lo, hi) == SubSeq(s, lo + 1, Min(hi, Len(s)))

\* c in s
Contains(s, c) == \E i \in 1..Len(s) : CharAt(s, i) = c

\* s.split(sep) for a one-character sep: the segments between the separators,
\* empty segments kept, so there is always at least one segment
RECURSIVE SplitFrom(_, _, _, _)
SplitFrom(s, sep, i, cur) ==
    IF i > Len(s) THEN <<cur>>
    ELSE IF CharAt(s, i) = sep THEN <<cur>> \o SplitFrom(s, sep, i + 1, "")
         ELSE SplitFrom(s, sep, i + 1, cur \o CharAt(s, i))

Split(s, sep) == SplitFrom(s, sep, 1, "")

\* dict[key] = value (adds the key when the dict lacks it)
Put(d, key, value) == (key :> value) @@ d

\* a dict without one of its keys
Without(d, key) == [f \in DOMAIN d \ {key} |-> d[f]]

(***************************************************************************)
(* The platform's local time zone, which datetime.fromtimestamp reads: a   *)
(* standard offset from UTC in seconds and the instant, in seconds since   *)
(* the epoch, up to which the clocks are one hour ahead of it (summer      *)
(* time).  At that instant the clocks go back, and the hour before it is   *)
(* shown a second time.                                                    *)
(***************************************************************************)
VARIABLE zone

HourSeconds == 3600

Utc == [std |-> 0, summerUntil |-> 0]

\* clocks go back at 02:00 UTC, two hours after the epoch
FallBack == [std |-> 0, summerUntil |-> 2 * HourSeconds]

Zones == {Utc, FallBack}

UtcOffset(z, seconds) == z.std + (IF seconds < z.summerUntil THEN HourSeconds ELSE 0)

(***************************************************************************)
(* The pure helpers of LogRetriever.                                       *)
(***************************************************************************)

\* the prefixes of the messages Lambda injects into a log stream
LambdaPrefixes == <<"START RequestId", "END RequestId", "REPORT RequestId">>

\* as _is_lambda_message without the strip()
IsLambdaMessageUntrimmed(event) == StartsWithAny(event.message, LambdaPrefixes)

\* _is_lambda_message(event); the caller has checked that event has a message
IsLambdaMessage(event) ==
    LET msg == Strip(event.message)
    IN  StartsWithAny(msg, LambdaPrefixes)

\* _convert_to_datetime(integer_timestamp): fromtimestamp without a tz gives
\* the naive datetime the local clock shows at milliseconds / 1000.0 seconds
\* since the epoch.  It is held here as the clock's reading in whole seconds
\* (the instant's seconds plus the zone's offset at that instant) and
\* microseconds; a naive datetime carries no offset.
ConvertToDatetime(integer_timestamp) ==
    LET seconds == integer_timestamp.int \div 1000
    IN  [datetime |-> <<seconds + UtcOffset(zone, seconds),
                        (integer_timestamp.int % 1000) * 1000>>]

\* as ShortId with the slice one character short
ShortIdFive(logStreamName) ==
    IF Contains(logStreamName, "]")
    THEN LET index == Find(logStreamName, "]")
         IN  Slice(logStreamName, index + 1, index + 6)
    ELSE logStreamName

\* the short identifier of a log stream name '2016/07/05/[id]hash': the six
\* characters after the first ']', or the whole name when it has no ']'
ShortId(logStreamName) ==
    IF Contains(logStreamName, "]")
    THEN LET index == Find(logStreamName, "]")
         IN  Slice(logStreamName, index + 1, index + 7)
    ELSE logStreamName

\* One field conversion of the loop body: event[key] = _convert_to_datetime(
\* event[key]).  A missing key raises KeyError, a value that is no number
\* raises TypeError (datetime / float); the event is left as it was then.
ConvertField(r, key) ==
    IF r.error # "none" THEN r
    ELSE IF key \notin DOMAIN r.event THEN [r EXCEPT !.error = "KeyError"]
    ELSE IF ~IsInt(r.event[key]) THEN [r EXCEPT !.error = "TypeError"]
    ELSE [r EXCEPT !.event = Put(r.event, key, ConvertToDatetime(r.event[key]))]

\* event['logShortId'] = identifier derived from event['logStreamName']
SetShortId(r) ==
    IF r.error # "none" THEN r
    ELSE IF "logStreamName" \notin DOMAIN r.event THEN [r EXCEPT !.error = "KeyError"]
    ELSE [r EXCEPT !.event = Put(r.event, "logShortId", ShortId(r.event.logStreamName))]

\* The normalisation of one event, in the order of the code: ingestionTime,
\* then timestamp, then logShortId.  The dict is changed in place, so what
\* was assigned before an exception stays assigned.
Normalize(event) ==
    SetShortId(ConvertField(ConvertField([event |-> event, error |-> "none"],
                                         "ingestionTime"),
                            "timestamp"))

\* as FilterOutcome with include_lambda_messages ignored
FilterOutcomeAlways(include_lambda_messages, event) ==
    IF "message" \notin DOMAIN event THEN "KeyError"
    ELSE IF IsLambdaMessage(event) THEN "skip"
    ELSE "pass"

\* The filter of the loop body: "skip" (continue), "pass", or "KeyError" when
\* the message has to be read and the event has none.  With
\* include_lambda_messages set, `not include_lambda_messages and ...` does not
\* evaluate _is_lambda_message at all.
FilterOutcome(include_lambda_messages, event) ==
    IF include_lambda_messages THEN "pass"
    ELSE IF "message" \notin DOMAIN event THEN "KeyError"
    ELSE IF IsLambdaMessage(event) THEN "skip"
    ELSE "pass"

\* as CapReached, one event early
CapReachedEarly(max_entries, n) == ~IsNone(max_entries) /\ n >= max_entries.int - 1

\* as CapReached with > for >=
CapReachedLate(max_entries, n) == ~IsNone(max_entries) /\ n > max_entries.int

\* `max_entries is not None and shown >= max_entries`
CapReached(max_entries, n) == ~IsNone(max_entries) /\ n >= max_entries.int

\* create_from_arn: the log group name, or IndexError when the ARN has no
\* segment 6
ArnSegments(lambda_arn) == Split(lambda_arn, ":")

\* whether [6] is an index of the segments
HasSegment6(lambda_arn) == Len(ArnSegments(lambda_arn)) >= 7

\* as LogGroupNameOf with the segment before
LogGroupNameOfSegment5(lambda_arn) == "/aws/lambda/" \o ArnSegments(lambda_arn)[6]

LogGroupNameOf(lambda_arn) == "/aws/lambda/" \o ArnSegments(lambda_arn)[7]

(***************************************************************************)
(* The inputs: raw events as the source delivers them, page lengths, ARNs. *)
(***************************************************************************)
RawEvent(msg, lsn, ts, it) ==
    [logStreamName |-> lsn, timestamp |-> PyInt(ts), message |-> msg,
     ingestionTime |-> PyInt(it), eventId |-> "id"]

Events ==
    { RawEvent("  START RequestId: g Version: $LATEST", "2016/07/05/[abc123]d4e5f6g7h8",
               1500, 2750),
      RawEvent("END RequestId\n", "x]ab", 1500, 2750),
      RawEvent("\tREPORT RequestId: g", "nobracket", 1500, 2750),
      RawEvent("hello", "a]b]cdefghi", 999, 1000),
      RawEvent("START Request", "]", 1500, 2750),
      RawEvent("my START RequestId", "", 2750, 1500),
      RawEvent("world", "2016/07/05/[abc123]d4e5f6g7h8", 1500, 1500),
      RawEvent("late", "x]abcdef", 5400000, 9000000),
      Without(RawEvent("", "2016/07/05/[abc123]d4e5f6g7h8", 1500, 2750), "message"),
      Without(RawEvent("END RequestId: g", "x]abcdef", 1500, 2750), "timestamp"),
      Without(RawEvent("hello", "x]abcdef", 1500, 2750), "timestamp"),
      Without(RawEvent("hello", "nobracket", 1500, 2750), "ingestionTime"),
      Without(RawEvent("hello", "", 1500, 2750), "logStreamName") }

PageLengths == 0..MaxPageLen

MaxEntriesValues == {PyNone} \cup {PyInt(k) : k \in 0..MaxK}

ArnSegmentValues == {"", "fn"}

RECURSIVE Join(_, _)
Join(segs, sep) ==
    IF Len(segs) = 0 THEN ""
    ELSE IF Len(segs) = 1 THEN segs[1]
    ELSE segs[1] \o sep \o Join(Tail(segs), sep)

\* every identifier of up to MaxSegments segments, and two ARNs as Lambda
\* gives them: unqualified, and with a version
Arns ==
    {Join(segs, ":") : segs \in UNION {[1..n -> ArnSegmentValues] : n \in 1..MaxSegments}}
    \cup {"arn:aws:lambda:us-west-2:123456789012:function:app-dev",
          "arn:aws:lambda:us-west-2:123456789012:function:app-dev:1"}

(***************************************************************************)
(* What the input is, said without the program: whether the source's event *)
(* is one of the messages Lambda injects (after any leading whitespace its *)
(* message goes on with one of the three prefixes), and whether a stream   *)
(* with the given include_lambda_messages is to let it through.            *)
(***************************************************************************)
InjectedByLambda(ev) ==
    /\ "message" \in DOMAIN ev
    /\ \E n \in 0..Len(ev.message) :
          /\ \A i \in 1..n : CharAt(ev.message, i) \in {" ", "\t", "\n", "\r", "\f"}
          /\ \E p \in {"START RequestId", "END RequestId", "REPORT RequestId"} :
                SubSeq(ev.message, n + 1, Min(n + Len(p), Len(ev.message))) = p

Eligible(incl, ev) == incl \/ ~InjectedByLambda(ev)

(***************************************************************************)
(* The state.  retriever, arn and arnError belong to create_from_arn; the  *)
(* other variables hold, for each stream (one generator object made by a   *)
(* call of retrieve_logs), the generator's frame, what the paginator and   *)
(* the client were asked, and what the consumer received.                  *)
(*                                                                         *)
(* The source's answer is drawn as the generator reads it: the length of a *)
(* page when the page is delivered, the content of an event when the loop  *)
(* takes it.  The loop reads every event of a page once and in order and   *)
(* never looks ahead, so these are the behaviours of a source that has the *)
(* whole page at delivery.                                                 *)
(***************************************************************************)
VARIABLES
    arn,            \* the lambda_arn given to create_from_arn ("" when the
                    \* LogRetriever is constructed directly)
    retriever,      \* the LogRetriever: [log_group_name |-> ...], or PyNone
    arnError,       \* the exception create_from_arn raised, or "none"
    pc,             \* where the generator stands: "none" (not made), "created",
                    \* "paginate" (line 78), "events" (line 81), "yielded"
                    \* (suspended at line 99), "done"
    include,        \* include_lambda_messages
    maxEntries,     \* max_entries
    shown,          \* the local shown
    pageIdx,        \* the number of pages the paginator has delivered
    pageLen,        \* len(events) of the current page
    evIdx,          \* the number of events of the current page the loop has taken
    event,          \* the local event: the dict of the page the loop took last,
                    \* as it is now (PyNone before the first)
    rawEvent,       \* that dict as the source delivered it
    out,            \* the events yielded so far, each as <<page, index>>
    pageLens,       \* the lengths of the pages delivered so far, in order
    seen,           \* the events the loop has taken so far, in order: each
                    \* [ref |-> <<page, index>>, ok |-> whether the filter is
                    \* to let it through]
    term,           \* how the generator ended: "none", "Exhausted", "Capped", "Failed"
    err,            \* the exception that ended it, or "none"
    lastResult,     \* what the consumer's last next() gave: "none", "event",
                    \* "StopIteration", or the exception raised
    reqLog,         \* the page numbers requested from the source, in order
    paginatorCalls, \* the number of get_paginator calls made to the client
    paginateArgs,   \* the arguments of paginate, or PyNone before the call
    source,         \* what the log group holds, when more than one stream reads
                    \* it: [pages |-> the pages, each the sequence of its events
                    \* as delivered, fails |-> whether the request after the
                    \* last page raises, held |-> whether the source keeps the
                    \* dicts of its pages and hands the same dicts to every
                    \* paginate (a paginator over responses held in memory)
                    \* or makes new dicts for every request (one that parses
                    \* a response per request)]; PyNone for a source whose
                    \* answers are drawn as a single stream reads them
    objects         \* the dicts of the pages of `source` as they are now, by
                    \* place <<page, index>>

envVars == <<zone, source, objects>>
arnVars == <<arn, retriever, arnError>>
streamVars == <<pc, include, maxEntries, shown, pageIdx, pageLen, evIdx, event,
                rawEvent, out, pageLens, seen, term, err, lastResult, reqLog,
                paginatorCalls, paginateArgs>>
vars == <<arn, retriever, arnError, pc, include, maxEntries, shown, pageIdx, pageLen,
          evIdx, event, rawEvent, out, pageLens, seen, term, err, lastResult, reqLog,
          paginatorCalls, paginateArgs, zone, source, objects>>

\* no stream has been made
NoStreams ==
    /\ pc = [s \in Streams |-> "none"]
    /\ include = [s \in Streams |-> TRUE]
    /\ maxEntries = [s \in Streams |-> PyNone]
    /\ shown = [s \in Streams |-> 0]
    /\ pageIdx = [s \in Streams |-> 0]
    /\ pageLen = [s \in Streams |-> 0]
    /\ evIdx = [s \in Streams |-> 0]
    /\ event = [s \in Streams |-> PyNone]
    /\ rawEvent = [s \in Streams |-> PyNone]
    /\ out = [s \in Streams |-> <<>>]
    /\ pageLens = [s \in Streams |-> <<>>]
    /\ seen = [s \in Streams |-> <<>>]
    /\ term = [s \in Streams |-> "none"]
    /\ err = [s \in Streams |-> "none"]
    /\ lastResult = [s \in Streams |-> "none"]
    /\ reqLog = [s \in Streams |-> <<>>]
    /\ paginatorCalls = [s \in Streams |-> 0]
    /\ paginateArgs = [s \in Streams |-> PyNone]

\* a source read by one stream only, on a platform whose local zone is UTC
SoloEnv ==
    /\ zone = Utc
    /\ source = PyNone
    /\ objects = <<>>

\* LogRetriever(client, log_group_name): __init__ stores the name
Init ==
    /\ SoloEnv
    /\ arn = ""
    /\ retriever = [log_group_name |-> "/aws/lambda/fn"]
    /\ arnError = "none"
    /\ NoStreams

\* before LogRetriever.create_from_arn(client, lambda_arn)
InitArn ==
    /\ SoloEnv
    /\ arn \in Arns
    /\ retriever = PyNone
    /\ arnError = "none"
    /\ NoStreams

(***************************************************************************)
(* create_from_arn(client, lambda_arn): lambda_arn.split(':')[6] raises    *)
(* IndexError when there are fewer than 7 segments, and then no            *)
(* LogRetriever is made.                                                   *)
(***************************************************************************)
CreateFromArn ==
    /\ IsNone(retriever)
    /\ arnError = "none"
    /\ IF HasSegment6(arn)
       THEN /\ retriever' = [log_group_name |-> LogGroupNameOf(arn)]
            /\ arnError' = "none"
       ELSE /\ retriever' = retriever
            /\ arnError' = "IndexError"
    /\ UNCHANGED <<envVars, arn, streamVars>>

\* as RetrieveLogs, were retrieve_logs a function that runs up to its loop
\* when it is called
RetrieveLogsEager(s) ==
    /\ ~IsNone(retriever)
    /\ pc[s] = "none"
    /\ \E incl \in BOOLEAN, max \in MaxEntriesValues :
          /\ include' = [include EXCEPT ![s] = incl]
          /\ maxEntries' = [maxEntries EXCEPT ![s] = max]
    /\ paginatorCalls' = [paginatorCalls EXCEPT ![s] = @ + 1]
    /\ paginateArgs' = [paginateArgs EXCEPT ![s] =
                           [logGroupName |-> retriever.log_group_name,
                            interleaved |-> TRUE]]
    /\ pc' = [pc EXCEPT ![s] = "paginate"]
    /\ UNCHANGED <<envVars, arnVars, shown, pageIdx, pageLen, evIdx, event, rawEvent,
                   out, pageLens, seen, term, err, lastResult, reqLog>>

(***************************************************************************)
(* retrieve_logs(include_lambda_messages, max_entries): the call of a      *)
(* generator function makes the generator object and runs none of its body.*)
(***************************************************************************)
RetrieveLogs(s) ==
    /\ ~IsNone(retriever)
    /\ pc[s] = "none"
    /\ \E incl \in BOOLEAN, max \in MaxEntriesValues :
          /\ include' = [include EXCEPT ![s] = incl]
          /\ maxEntries' = [maxEntries EXCEPT ![s] = max]
    /\ pc' = [pc EXCEPT ![s] = "created"]
    /\ UNCHANGED <<envVars, arnVars, shown, pageIdx, pageLen, evIdx, event, rawEvent, out,
                   pageLens, seen, term, err, lastResult, reqLog, paginatorCalls,
                   paginateArgs>>

(***************************************************************************)
(* The consumer's first next(): lines 76-78 up to the head of the page     *)
(* loop.  get_paginator is called, shown is set, paginate is called with   *)
(* the log group name; the paginator has not requested a page yet.         *)
(***************************************************************************)
Start(s) ==
    /\ pc[s] = "created"
    /\ paginatorCalls' = [paginatorCalls EXCEPT ![s] = @ + 1]
    /\ shown' = [shown EXCEPT ![s] = 0]
    /\ paginateArgs' = [paginateArgs EXCEPT ![s] =
                           [logGroupName |-> retriever.log_group_name,
                            interleaved |-> TRUE]]
    /\ pc' = [pc EXCEPT ![s] = "paginate"]
    /\ UNCHANGED <<envVars, arnVars, include, maxEntries, pageIdx, pageLen, evIdx, event,
                   rawEvent, out, pageLens, seen, term, err, lastResult, reqLog>>

(***************************************************************************)
(* How the generator leaves the loops.                                     *)
(***************************************************************************)

\* as PageExhausted, leaving the page one event early
PageExhaustedEarly(length, taken) == taken >= length - 1

\* as PageExhausted, with a loop that does not see the end of the page
PageExhaustedNever(length, taken) == taken > length

\* `for event in events` ends when every event of the page has been taken
PageExhausted(length, taken) == taken = length

\* as AfterException, with the exception swallowed and the page loop entered
\* again
AfterExceptionRetry(error) ==
    [pc |-> "paginate", term |-> "none", err |-> error, result |-> "none"]

\* An exception raised in the generator's body (by the paginator or by the
\* loop body) is caught nowhere: it ends the generator and reaches the
\* consumer's next() as it is.
AfterException(error) ==
    [pc |-> "done", term |-> "Failed", err |-> error, result |-> error]

\* as AfterReturn, with a generator that can be run again from the top
AfterReturnRestart(how) ==
    [pc |-> "created", term |-> "none", err |-> "none", result |-> "StopIteration"]

\* `return` at line 102, and the end of the page loop: StopIteration
AfterReturn(how) ==
    [pc |-> "done", term |-> how, err |-> "none", result |-> "StopIteration"]

\* the generator ends as `end` says
Finish(s, end) ==
    /\ pc' = [pc EXCEPT ![s] = end.pc]
    /\ term' = [term EXCEPT ![s] = end.term]
    /\ err' = [err EXCEPT ![s] = end.err]
    /\ lastResult' = [lastResult EXCEPT ![s] = end.result]

(***************************************************************************)
(* The head of the page loop (line 78): the paginator is asked for the     *)
(* next page.  The source answers with a page, with the end of the pages,  *)
(* or with a failure.                                                      *)
(***************************************************************************)
DeliverPage(s) ==
    /\ pc[s] = "paginate"
    /\ IF IsNone(source) THEN pageIdx[s] < MaxPages ELSE pageIdx[s] < Len(source.pages)
    /\ \E n \in PageLengths :
          /\ IF IsNone(source) THEN TRUE ELSE n = Len(source.pages[pageIdx[s] + 1])
          /\ pageLen' = [pageLen EXCEPT ![s] = n]
          /\ pageLens' = [pageLens EXCEPT ![s] = Append(@, n)]
    /\ reqLog' = [reqLog EXCEPT ![s] = Append(@, pageIdx[s] + 1)]
    /\ pageIdx' = [pageIdx EXCEPT ![s] = @ + 1]
    /\ evIdx' = [evIdx EXCEPT ![s] = 0]
    /\ pc' = [pc EXCEPT ![s] = "events"]
    /\ UNCHANGED <<envVars, arnVars, include, maxEntries, shown, event, rawEvent, out,
                   seen, term, err, lastResult, paginatorCalls, paginateArgs>>

\* the previous response carried no nextToken: the page iterator is exhausted
\* without a further request, and the generator's body ends
EndOfPages(s) ==
    /\ pc[s] = "paginate"
    /\ IF IsNone(source) THEN TRUE
       ELSE pageIdx[s] = Len(source.pages) /\ ~source.fails
    /\ Finish(s, AfterReturn("Exhausted"))
    /\ UNCHANGED <<envVars, arnVars, include, maxEntries, shown, pageIdx, pageLen, evIdx, event,
                   rawEvent, out, pageLens, seen, reqLog, paginatorCalls, paginateArgs>>

\* the request for the next page raises (no such log group, access denied, ...)
SourceFails(s) ==
    /\ pc[s] = "paginate"
    /\ IF IsNone(source) THEN TRUE
       ELSE pageIdx[s] = Len(source.pages) /\ source.fails
    /\ reqLog' = [reqLog EXCEPT ![s] = Append(@, pageIdx[s] + 1)]
    /\ Finish(s, AfterException("SourceError"))
    /\ UNCHANGED <<envVars, arnVars, include, maxEntries, shown, pageIdx, pageLen, evIdx, event,
                   rawEvent, out, pageLens, seen, paginatorCalls, paginateArgs>>

(***************************************************************************)
(* The event loop (lines 81-99), one event per step.                       *)
(***************************************************************************)

\* the page is exhausted: back to the head of the page loop
PageDone(s) ==
    /\ pc[s] = "events"
    /\ PageExhausted(pageLen[s], evIdx[s])
    /\ pc' = [pc EXCEPT ![s] = "paginate"]
    /\ UNCHANGED <<envVars, arnVars, include, maxEntries, shown, pageIdx, pageLen, evIdx, event,
                   rawEvent, out, pageLens, seen, term, err, lastResult, reqLog,
                   paginatorCalls, paginateArgs>>

\* the dicts the page can have at the place the loop takes next: any event,
\* or, of a recorded source, the dict at that place as it is now
Offered(s) ==
    LET place == <<pageIdx[s], evIdx[s] + 1>>
    IN  IF IsNone(source) THEN Events
        ELSE IF place \in DOMAIN objects THEN {objects[place]} ELSE {}

\* The loop body assigns to the dict of the page.  A source that holds its
\* dicts holds the dict as assigned to; one that makes new dicts for every
\* request is not touched.
AssignedInPlace(place, dict) ==
    IF IsNone(source) THEN objects
    ELSE IF source.held /\ place \in DOMAIN objects
         THEN [objects EXCEPT ![place] = dict]
         ELSE objects

\* line 81: the loop takes the next event of the page, the dict ev
TakeEvent(s, ev) ==
    /\ pc[s] = "events"
    /\ ~PageExhausted(pageLen[s], evIdx[s])
    /\ evIdx[s] < pageLen[s]
    /\ evIdx' = [evIdx EXCEPT ![s] = @ + 1]
    /\ rawEvent' = [rawEvent EXCEPT ![s] = ev]
    /\ seen' = [seen EXCEPT ![s] =
                   Append(@, [ref |-> <<pageIdx[s], evIdx[s] + 1>>,
                              ok |-> Eligible(include[s], ev)])]
    /\ UNCHANGED pageLens

\* lines 82-83: the event is a Lambda message and those are left out
SkipEvent(s) ==
    \E ev \in Offered(s) :
        /\ TakeEvent(s, ev)
        /\ FilterOutcome(include[s], ev) = "skip"
        /\ event' = [event EXCEPT ![s] = ev]
        /\ UNCHANGED <<envVars, arnVars, pc, include, maxEntries, shown, pageIdx, pageLen, out,
                        term, err, lastResult, reqLog, paginatorCalls,
                       paginateArgs>>

\* lines 82-98 raise: event['message'] in the filter, or a key or a value the
\* normalisation cannot use.  What the normalisation assigned before stays.
RaiseOnEvent(s) ==
    \E ev \in Offered(s) :
        /\ TakeEvent(s, ev)
        /\ LET f == FilterOutcome(include[s], ev)
               n == Normalize(ev)
           IN  \/ /\ f = "KeyError"
                  /\ event' = [event EXCEPT ![s] = ev]
                  /\ objects' = objects
                  /\ Finish(s, AfterException("KeyError"))
               \/ /\ f = "pass"
                  /\ n.error # "none"
                  /\ event' = [event EXCEPT ![s] = n.event]
                  /\ objects' = AssignedInPlace(<<pageIdx[s], evIdx[s] + 1>>, n.event)
                  /\ Finish(s, AfterException(n.error))
        /\ UNCHANGED <<zone, source, arnVars, include, maxEntries, shown, pageIdx, pageLen, out,
                       reqLog, paginatorCalls, paginateArgs>>

\* lines 84-99: the event is normalised in place and yielded; the generator
\* is suspended at the yield and the consumer's next() returns the dict
YieldEvent(s) ==
    \E ev \in Offered(s) :
        /\ TakeEvent(s, ev)
        /\ FilterOutcome(include[s], ev) = "pass"
        /\ LET n == Normalize(ev)
           IN  /\ n.error = "none"
               /\ event' = [event EXCEPT ![s] = n.event]
               /\ objects' = AssignedInPlace(<<pageIdx[s], evIdx[s] + 1>>, n.event)
        /\ out' = [out EXCEPT ![s] = Append(@, <<pageIdx[s], evIdx[s] + 1>>)]
        /\ pc' = [pc EXCEPT ![s] = "yielded"]
        /\ lastResult' = [lastResult EXCEPT ![s] = "event"]
        /\ UNCHANGED <<zone, source, arnVars, include, maxEntries, shown, pageIdx, pageLen, term, err,
                       reqLog, paginatorCalls, paginateArgs>>

(***************************************************************************)
(* The consumer's next() on a generator suspended at the yield: lines      *)
(* 100-102, shown += 1 and the test of the cap, then on to the next event. *)
(***************************************************************************)
Resume(s) ==
    /\ pc[s] = "yielded"
    /\ shown' = [shown EXCEPT ![s] = @ + 1]
    /\ IF CapReached(maxEntries[s], shown[s] + 1)
       THEN Finish(s, AfterReturn("Capped"))
       ELSE /\ pc' = [pc EXCEPT ![s] = "events"]
            /\ lastResult' = [lastResult EXCEPT ![s] = "none"]
            /\ UNCHANGED <<term, err>>
    /\ UNCHANGED <<envVars, arnVars, include, maxEntries, pageIdx, pageLen, evIdx, event,
                   rawEvent, out, pageLens, seen, reqLog, paginatorCalls, paginateArgs>>

\* next() on a generator that has ended raises StopIteration and runs nothing
PullFinished(s) ==
    /\ pc[s] = "done"
    /\ lastResult' = [lastResult EXCEPT ![s] = "StopIteration"]
    /\ UNCHANGED <<envVars, arnVars, pc, include, maxEntries, shown, pageIdx, pageLen, evIdx,
                   event, rawEvent, out, pageLens, seen, term, err, reqLog,
                   paginatorCalls, paginateArgs>>

\* The consumer holds the dict it was given, which is the dict of the page,
\* and assigns to one of its keys.
ConsumerModifies(s) ==
    /\ pc[s] = "yielded"
    /\ event[s].eventId # "changed"
    /\ event' = [event EXCEPT ![s] = Put(@, "eventId", "changed")]
    /\ objects' = AssignedInPlace(<<pageIdx[s], evIdx[s]>>, Put(event[s], "eventId", "changed"))
    /\ UNCHANGED <<zone, source, arnVars, pc, include, maxEntries, shown, pageIdx, pageLen, evIdx,
                   rawEvent, out, pageLens, seen, term, err, lastResult, reqLog,
                   paginatorCalls, paginateArgs>>

StreamStep(s) ==
    \/ RetrieveLogs(s)
    \/ Start(s)
    \/ DeliverPage(s)
    \/ EndOfPages(s)
    \/ SourceFails(s)
    \/ PageDone(s)
    \/ SkipEvent(s)
    \/ RaiseOnEvent(s)
    \/ YieldEvent(s)
    \/ Resume(s)
    \/ PullFinished(s)

Next == \E s \in SoloStreams : StreamStep(s)

Spec == Init /\ [][Next]_vars

(***************************************************************************)
(* The stream together with a consumer that assigns to the dicts it is     *)
(* given.                                                                  *)
(***************************************************************************)
NextConsumer == \E s \in SoloStreams : StreamStep(s) \/ ConsumerModifies(s)

SpecConsumer == Init /\ [][NextConsumer]_vars

(***************************************************************************)
(* create_from_arn followed by the first calls a stream makes: the         *)
(* arguments the client and the paginator are given.                       *)
(***************************************************************************)
NextArn ==
    \/ CreateFromArn
    \/ \E s \in SoloStreams : RetrieveLogs(s) \/ Start(s)

SpecArn == InitArn /\ [][NextArn]_vars

(***************************************************************************)
(* The stream on a platform in any of the local zones.                     *)
(***************************************************************************)
InitZone ==
    /\ zone \in Zones
    /\ source = PyNone
    /\ objects = <<>>
    /\ arn = ""
    /\ retriever = [log_group_name |-> "/aws/lambda/fn"]
    /\ arnError = "none"
    /\ NoStreams

SpecZone == InitZone /\ [][Next]_vars

(***************************************************************************)
(* Two streams made by two calls of retrieve_logs on one LogRetriever,     *)
(* pulled in any interleaving, over one source: the log group holds the    *)
(* same pages for both.  The sources are the two pages of a START message  *)
(* and an event, then one event, and a single page whose event has no      *)
(* timestamp; the request after the last page ends the pages or fails.     *)
(***************************************************************************)
ScenarioPages ==
    << << RawEvent("  START RequestId: g Version: $LATEST",
                   "2016/07/05/[abc123]d4e5f6g7h8", 1500, 2750),
          RawEvent("hello", "a]b]cdefghi", 999, 1000) >>,
       << RawEvent("world", "2016/07/05/[abc123]d4e5f6g7h8", 1500, 1500) >> >>

BrokenPages ==
    << << Without(RawEvent("hello", "x]abcdef", 1500, 2750), "timestamp") >> >>

Sources ==
    {[pages |-> ScenarioPages, fails |-> f, held |-> h] : f \in BOOLEAN, h \in BOOLEAN}
    \cup {[pages |-> BrokenPages, fails |-> FALSE, held |-> h] : h \in BOOLEAN}

\* the dicts of the pages as the source first has them, by place
ObjectsOf(pages) ==
    [place \in {<<p, i>> \in (1..Len(pages)) \X (1..MaxPageLen) : i <= Len(pages[p])}
        |-> pages[place[1]][place[2]]]

InitTwo ==
    /\ zone = Utc
    /\ source \in Sources
    /\ objects = ObjectsOf(source.pages)
    /\ arn = ""
    /\ retriever = [log_group_name |-> "/aws/lambda/fn"]
    /\ arnError = "none"
    /\ NoStreams

NextTwo == \E s \in Streams : StreamStep(s)

SpecTwo == InitTwo /\ [][NextTwo]_vars

(***************************************************************************)
(* The stream with a consumer that keeps pulling and a source that answers *)
(* every request: whenever the generator can take a step (run on to its    *)
(* next yield or its end, or be pulled again), it does.  The source is     *)
(* finite: up to MaxPages pages, each a run of MaxPageLen Lambda messages  *)
(* or such a run ending in one other event, after which the pages end or   *)
(* the request fails; or the page whose event has no timestamp.            *)
(***************************************************************************)
SkippedPage == [i \in 1..MaxPageLen |-> RawEvent("END RequestId\n", "x]ab", 1500, 2750)]

LastKeptPage ==
    [i \in 1..MaxPageLen |->
        IF i < MaxPageLen THEN RawEvent("END RequestId\n", "x]ab", 1500, 2750)
        ELSE RawEvent("hello", "a]b]cdefghi", 999, 1000)]

LiveSources ==
    {[pages |-> pages, fails |-> f, held |-> FALSE] :
        pages \in UNION {[1..n -> {SkippedPage, LastKeptPage}] : n \in 0..MaxPages},
        f \in BOOLEAN}
    \cup {[pages |-> BrokenPages, fails |-> FALSE, held |-> FALSE]}

InitLive ==
    /\ zone = Utc
    /\ source \in LiveSources
    /\ objects = ObjectsOf(source.pages)
    /\ arn = ""
    /\ retriever = [log_group_name |-> "/aws/lambda/fn"]
    /\ arnError = "none"
    /\ NoStreams

SpecLive == InitLive /\ [][Next]_vars /\ \A s \in SoloStreams : WF_vars(StreamStep(s))

(***************************************************************************)
(* Notions the properties are stated with.                                 *)
(***************************************************************************)
Range(sq) == {sq[i] : i \in 1..Len(sq)}

\* the places <<page, index>> of the entries of a history
Refs(sq) == [i \in 1..Len(sq) |-> sq[i].ref]

IsOk(e) == e.ok

\* of the events stream s has taken, the places of those to be let through
EligibleRefs(s) == Refs(SelectSeq(seen[s], IsOk))

\* every place of pages of the given lengths, in delivery order
RECURSIVE AllRefsFrom(_, _)
AllRefsFrom(lens, p) ==
    IF p > Len(lens) THEN <<>>
    ELSE [i \in 1..lens[p] |-> <<p, i>>] \o AllRefsFrom(lens, p + 1)

AllRefs(lens) == AllRefsFrom(lens, 1)

\* the place of the event stream s yielded last
LastRef(s) == out[s][Len(out[s])]

\* the pages 1..n, each once and in order
UpTo(n) == [i \in 1..n |-> i]

\* stream s took an event in this step
Took(s) == Len(seen'[s]) = Len(seen[s]) + 1

(***************************************************************************)
(* C1.  With include_lambda_messages false, an event whose message, after  *)
(* trimming surrounding whitespace, starts with "START RequestId", "END    *)
(* RequestId" or "REPORT RequestId" is never yielded (no yielded place is  *)
(* the place of such an event, and the event at a yield is none), and the  *)
(* step that takes such an event leaves the yielded sequence and the       *)
(* running count shown as they were.                                       *)
(***************************************************************************)
C1_LambdaMessagesLeftOut ==
    /\ [](\A s \in Streams : ~include[s] =>
            /\ pc[s] = "yielded" => ~InjectedByLambda(rawEvent[s])
            /\ Len(seen[s]) >= 1 /\ InjectedByLambda(rawEvent[s])
               => seen[s][Len(seen[s])].ref \notin Range(out[s])
            /\ \A i \in 1..Len(seen[s]) :
                  ~seen[s][i].ok => seen[s][i].ref \notin Range(out[s])
            /\ shown[s] <= Len(EligibleRefs(s)))
    /\ [][\A s \in Streams :
            ~include[s] /\ Took(s) /\ InjectedByLambda(rawEvent'[s])
            => /\ out'[s] = out[s]
               /\ shown'[s] = shown[s]
               /\ lastResult'[s] # "event"]_vars

\* a Lambda message with leading whitespace was skipped after one event had
\* been yielded and counted, under a cap
C1_Witness ==
    /\ ~include[1]
    /\ pc[1] = "events"
    /\ ~IsNone(rawEvent[1])
    /\ InjectedByLambda(rawEvent[1])
    /\ CharAt(rawEvent[1].message, 1) = " "
    /\ ~IsNone(maxEntries[1])
    /\ Len(out[1]) = 1
    /\ shown[1] = 1
    /\ Len(seen[1]) = 2

(***************************************************************************)
(* C2.  With max_entries = k set and at least k eligible events in the     *)
(* source, a consumer that pulls to the end of the sequence receives       *)
(* exactly k events, for every k, 0 included.                              *)
(***************************************************************************)
C2_ExactlyK ==
    \A s \in Streams :
        /\ term[s] \in {"Capped", "Exhausted"}
        /\ ~IsNone(maxEntries[s])
        /\ Len(EligibleRefs(s)) >= maxEntries[s].int
        => Len(out[s]) = maxEntries[s].int

\* max_entries = 0: one event was yielded before the cap was looked at
C2_Witness ==
    /\ term[1] = "Capped"
    /\ maxEntries[1] = PyInt(0)
    /\ Len(out[1]) = 1

(***************************************************************************)
(* C3.  Once an event has been yielded and the number of yielded events    *)
(* has reached max_entries, no step requests a page or takes an event or   *)
(* yields, whatever the consumer pulls afterwards, and the number of pages *)
(* requested is the number of the page that held the last yielded event,   *)
(* also when that event was the last of its page.                          *)
(***************************************************************************)
CapHit(s) ==
    /\ ~IsNone(maxEntries[s])
    /\ Len(out[s]) >= 1
    /\ Len(out[s]) >= maxEntries[s].int

C3_NothingAfterTheCap ==
    /\ [](\A s \in Streams : CapHit(s) =>
            /\ Len(reqLog[s]) = LastRef(s)[1]
            /\ pageIdx[s] = LastRef(s)[1]
            /\ pc[s] \in {"yielded", "done"}
            /\ pc[s] = "done" => term[s] = "Capped")
    /\ [][\A s \in Streams : CapHit(s) =>
            /\ reqLog'[s] = reqLog[s]
            /\ pageIdx'[s] = pageIdx[s]
            /\ seen'[s] = seen[s]
            /\ evIdx'[s] = evIdx[s]
            /\ out'[s] = out[s]
            /\ pc'[s] \in {pc[s], "done"}
            /\ lastResult'[s] \in {lastResult[s], "StopIteration"}]_vars

\* the cap was hit by the last event of page 1, a further page could have
\* been asked for, and the consumer has pulled since
C3_Witness ==
    /\ CapHit(1)
    /\ maxEntries[1] = PyInt(2)
    /\ term[1] = "Capped"
    /\ lastResult[1] = "StopIteration"
    /\ evIdx[1] = pageLen[1]
    /\ pageIdx[1] = 1
    /\ pageIdx[1] < MaxPages
    /\ reqLog[1] = <<1>>

(***************************************************************************)
(* C4.  With max_entries unset and no failure, the yielded sequence is the *)
(* delivered events in delivery order with none reordered, duplicated or   *)
(* dropped: every event of every delivered page is taken, in page order    *)
(* and then in order within the page, and the yielded places are exactly   *)
(* the places of the events to be let through (all of them with            *)
(* include_lambda_messages, those that are no Lambda message without); the *)
(* event at a yield is the one just taken, with the message it came with.  *)
(***************************************************************************)
C4_AllEligibleInOrder ==
    \A s \in Streams :
        IsNone(maxEntries[s]) /\ term[s] # "Failed" =>
            /\ out[s] = EligibleRefs(s)
            /\ term[s] # "Capped"
            /\ include[s] => out[s] = Refs(seen[s])
            /\ pc[s] = "paginate" \/ term[s] = "Exhausted"
               => Refs(seen[s]) = AllRefs(pageLens[s])
            /\ \E n \in 0..pageLen[s] :
                  Refs(seen[s]) = AllRefs(SubSeq(pageLens[s], 1, Len(pageLens[s]) - 1))
                                  \o [i \in 1..n |-> <<Len(pageLens[s]), i>>]
            /\ pc[s] = "yielded" =>
                  /\ LastRef(s) = <<pageIdx[s], evIdx[s]>>
                  /\ "message" \in DOMAIN rawEvent[s]
                     => event[s].message = rawEvent[s].message
                  /\ event[s].eventId = rawEvent[s].eventId

\* pages [Lambda message, A], [B] without Lambda messages: A then B, and the end
C4_Witness ==
    /\ ~include[1]
    /\ IsNone(maxEntries[1])
    /\ term[1] = "Exhausted"
    /\ pageLens[1] = <<2, 1>>
    /\ out[1] = << <<1, 2>>, <<2, 1>> >>

(***************************************************************************)
(* C5.  Pages are requested one at a time, in order, each once, and only   *)
(* while the generator runs the head of the page loop: never while it is   *)
(* suspended, not started or ended.  Every page before the last requested  *)
(* one has had all its events taken, and while the generator is suspended  *)
(* at a yield the pages requested are those up to the page holding the     *)
(* event just yielded.                                                     *)
(***************************************************************************)
TakenOfPage(s, p) == Cardinality({i \in 1..Len(seen[s]) : seen[s][i].ref[1] = p})

FullyProcessed(s) == {p \in 1..Len(pageLens[s]) : TakenOfPage(s, p) = pageLens[s][p]}

C5_PagesOnDemand ==
    /\ [](\A s \in Streams :
            /\ reqLog[s] = UpTo(Len(reqLog[s]))
            /\ Len(reqLog[s]) <= Cardinality(FullyProcessed(s)) + 1
            /\ \A p \in 1..(Len(reqLog[s]) - 1) : p \in FullyProcessed(s)
            /\ pc[s] = "yielded" => Len(reqLog[s]) = LastRef(s)[1])
    /\ [][\A s \in Streams :
            reqLog'[s] # reqLog[s]
            => /\ pc[s] = "paginate"
               /\ Len(reqLog'[s]) = Len(reqLog[s]) + 1]_vars

\* the consumer has pulled the first element only; page 1 holds a further
\* event and no second page has been requested
C5_Witness ==
    /\ pc[1] = "yielded"
    /\ Len(out[1]) = 1
    /\ evIdx[1] = 1
    /\ pageLen[1] = 2
    /\ reqLog[1] = <<1>>

(***************************************************************************)
(* C6.  When the source fails on the request for page n, the pull that     *)
(* made the request ends with that failure as it is, page n has been       *)
(* requested once and pages 1..n-1 once each before it, every event of     *)
(* pages 1..n-1 has been taken and every one to be let through has been    *)
(* yielded, the generator has ended, and afterwards no event is yielded    *)
(* and no page is requested.                                               *)
(***************************************************************************)
C6_SourceFailurePropagates ==
    /\ [](\A s \in Streams : err[s] = "SourceError" =>
            /\ pc[s] = "done"
            /\ term[s] = "Failed"
            /\ lastResult[s] \in {"SourceError", "StopIteration"}
            /\ reqLog[s] = UpTo(pageIdx[s] + 1)
            /\ Refs(seen[s]) = AllRefs(pageLens[s])
            /\ out[s] = EligibleRefs(s))
    /\ [][\A s \in Streams :
            /\ err'[s] = "SourceError" /\ err[s] # "SourceError"
               => /\ lastResult'[s] = "SourceError"
                  /\ pc[s] = "paginate"
                  /\ reqLog'[s] = Append(reqLog[s], pageIdx[s] + 1)
                  /\ out'[s] = out[s]
            /\ err[s] = "SourceError"
               => /\ out'[s] = out[s]
                  /\ reqLog'[s] = reqLog[s]
                  /\ seen'[s] = seen[s]
                  /\ err'[s] = err[s]
                  /\ lastResult'[s] \in {lastResult[s], "StopIteration"}]_vars

\* the source failed on page 2 after page 1 had given an event, and the
\* consumer has pulled again since
C6_Witness ==
    /\ err[1] = "SourceError"
    /\ reqLog[1] = <<1, 2>>
    /\ Len(out[1]) >= 1
    /\ lastResult[1] = "StopIteration"

(***************************************************************************)
(* C7.  For both values of include_lambda_messages, once the loop has      *)
(* taken an event that lacks one of message, timestamp, ingestionTime and  *)
(* logStreamName, the stream has raised: it has ended as Failed, and the   *)
(* event has been neither yielded nor skipped.                             *)
(***************************************************************************)
RequiredFields == {"message", "timestamp", "ingestionTime", "logStreamName"}

Malformed(ev) == \E k \in RequiredFields : k \notin DOMAIN ev

C7_MalformedEventRaises ==
    \A s \in Streams :
        ~IsNone(rawEvent[s]) /\ Malformed(rawEvent[s]) =>
            /\ term[s] = "Failed"
            /\ pc[s] = "done"
            /\ err[s] # "none"
            /\ seen[s][Len(seen[s])].ref \notin Range(out[s])

\* an event without a message was yielded to a stream that includes Lambda
\* messages
C7_Witness ==
    /\ include[1]
    /\ pc[1] = "yielded"
    /\ "message" \notin DOMAIN rawEvent[1]
    /\ LastRef(1) = <<pageIdx[1], evIdx[1]>>

(***************************************************************************)
(* C8.  Traversal leaves the source's data as it was delivered, whatever   *)
(* the consumer does with what it is given: the dict of the page that the  *)
(* loop took last equals the dict as the source delivered it (integer      *)
(* timestamp and ingestionTime, no logShortId).                            *)
(***************************************************************************)
C8_SourceDataUnchanged ==
    \A s \in Streams : ~IsNone(rawEvent[s]) => event[s] = rawEvent[s]

\* the page's dict after the yield: converted in place, with a logShortId,
\* and changed again by the consumer
C8_Witness ==
    /\ pc[1] = "yielded"
    /\ ~IsInt(event[1].timestamp)
    /\ IsInt(rawEvent[1].timestamp)
    /\ "logShortId" \in DOMAIN event[1]
    /\ event[1].eventId = "changed"
    /\ rawEvent[1].eventId = "id"

(***************************************************************************)
(* C9.  create_from_arn.  The segments of an identifier are what lies      *)
(* between its colons.  With at least 7 segments (6 colons) a LogRetriever *)
(* is made whose log group name is "/aws/lambda/" followed by what lies    *)
(* between the sixth colon and the seventh (or the end), and that name is  *)
(* what paginate is given; with fewer, the call raises, no LogRetriever is *)
(* made, and the client is never called.  The construction itself calls    *)
(* nothing.                                                                *)
(***************************************************************************)
Colons(a) == {i \in 1..Len(a) : CharAt(a, i) = ":"}

\* the position of the n-th colon of a
NthColon(a, n) == CHOOSE i \in Colons(a) : Cardinality({j \in Colons(a) : j < i}) = n - 1

Segment6(a) ==
    SubSeq(a, NthColon(a, 6) + 1,
           IF Cardinality(Colons(a)) >= 7 THEN NthColon(a, 7) - 1 ELSE Len(a))

NoClientCall(s) ==
    /\ paginatorCalls[s] = 0
    /\ reqLog[s] = <<>>
    /\ IsNone(paginateArgs[s])

C9_LogGroupFromArn ==
    /\ [](/\ Cardinality(Colons(arn)) >= 6 =>
                /\ arnError = "none"
                /\ ~IsNone(retriever) =>
                      retriever.log_group_name = "/aws/lambda/" \o Segment6(arn)
                /\ \A s \in Streams : ~IsNone(paginateArgs[s]) =>
                      paginateArgs[s].logGroupName = "/aws/lambda/" \o Segment6(arn)
          /\ Cardinality(Colons(arn)) < 6 =>
                /\ IsNone(retriever)
                /\ \A s \in Streams : pc[s] = "none" /\ NoClientCall(s)
          /\ \A s \in Streams : pc[s] \in {"none", "created"} => NoClientCall(s))
    /\ [][IsNone(retriever) /\ arnError = "none" =>
            /\ Cardinality(Colons(arn)) >= 6 => ~IsNone(retriever') /\ arnError' = "none"
            /\ Cardinality(Colons(arn)) < 6 => IsNone(retriever') /\ arnError' = "IndexError"
            /\ \A s \in Streams : NoClientCall(s)']_vars

\* eight segments: the name comes from segment 6, segment 7 is ignored, and
\* paginate has been given the name
C9_Witness ==
    /\ arn = "arn:aws:lambda:us-west-2:123456789012:function:app-dev:1"
    /\ ~IsNone(retriever)
    /\ retriever.log_group_name = "/aws/lambda/app-dev"
    /\ ~IsNone(paginateArgs[1])
    /\ paginateArgs[1].logGroupName = "/aws/lambda/app-dev"

(***************************************************************************)
(* C10.  At every yield the event's logShortId comes from its own          *)
(* logStreamName, which is unchanged: with the first ']' at position i     *)
(* (counted from 0), it is the characters at positions i+1 .. i+6, as many *)
(* of them as the name has; without a ']' it is the whole name.            *)
(* "2016/07/05/[abc123]d4e5f6g7h8" gives "d4e5f6".                         *)
(***************************************************************************)
IsShortIdOf(id, name) ==
    LET brackets == {i \in 1..Len(name) : CharAt(name, i) = "]"}
    IN  IF brackets = {} THEN id = name
        ELSE \E b \in brackets :
                /\ \A c \in brackets : b <= c
                /\ Len(id) = Min(6, Len(name) - b)
                /\ \A j \in 1..Len(id) : CharAt(id, j) = CharAt(name, b + j)

C10_ShortIdFromStreamName ==
    \A s \in Streams :
        pc[s] = "yielded" =>
            /\ "logShortId" \in DOMAIN event[s]
            /\ event[s].logStreamName = rawEvent[s].logStreamName
            /\ IsShortIdOf(event[s].logShortId, rawEvent[s].logStreamName)
            /\ rawEvent[s].logStreamName = "2016/07/05/[abc123]d4e5f6g7h8"
               => event[s].logShortId = "d4e5f6"
            /\ rawEvent[s].logStreamName = "x]ab" => event[s].logShortId = "ab"
            /\ rawEvent[s].logStreamName = "]" => event[s].logShortId = ""
            /\ rawEvent[s].logStreamName = "nobracket" => event[s].logShortId = "nobracket"

\* the example of the description has been yielded
C10_Witness ==
    /\ pc[1] = "yielded"
    /\ rawEvent[1].logStreamName = "2016/07/05/[abc123]d4e5f6g7h8"
    /\ event[1].logShortId = "d4e5f6"

(***************************************************************************)
(* C11.  At every yield the event carries the logStreamName, message and   *)
(* eventId the source delivered it with, its timestamp and ingestionTime   *)
(* are datetimes, each the conversion of the integer the source delivered  *)
(* under the same key, and it has a logShortId.  The conversion loses      *)
(* nothing: two different millisecond values, of one event or of different *)
(* events of the source, never convert to the same datetime.               *)
(***************************************************************************)
Millis(ev) == {ev[k] : k \in {"timestamp", "ingestionTime"} \cap DOMAIN ev}

SourceMillis == UNION {Millis(ev) : ev \in Events}

C11_NormalizedFaithfully ==
    \A s \in Streams :
        pc[s] = "yielded" =>
            /\ \A k \in {"logStreamName", "message", "eventId"} \cap DOMAIN rawEvent[s] :
                  k \in DOMAIN event[s] /\ event[s][k] = rawEvent[s][k]
            /\ "logShortId" \in DOMAIN event[s]
            /\ ~IsInt(event[s].timestamp)
            /\ ~IsInt(event[s].ingestionTime)
            /\ event[s].timestamp = ConvertToDatetime(rawEvent[s].timestamp)
            /\ event[s].ingestionTime = ConvertToDatetime(rawEvent[s].ingestionTime)
            /\ rawEvent[s].timestamp # rawEvent[s].ingestionTime
               => event[s].timestamp # event[s].ingestionTime
            /\ \A a, b \in SourceMillis :
                  a # b => ConvertToDatetime(a) # ConvertToDatetime(b)

\* where the clocks went back: an event logged at 01:30 and taken in at 02:30
\* was yielded with the same datetime for both
C11_Witness ==
    /\ zone = FallBack
    /\ pc[1] = "yielded"
    /\ rawEvent[1].timestamp = PyInt(5400000)
    /\ rawEvent[1].ingestionTime = PyInt(9000000)
    /\ event[1].timestamp = event[1].ingestionTime

(***************************************************************************)
(* C12.  The life of a stream.  NotStarted is the generator made and not   *)
(* yet run, Paginating the head of the page loop, Filtering and            *)
(* Normalizing the body of the event loop, Emitting the generator          *)
(* suspended at the yield; it ends as Exhausted, Capped or Failed.  Every  *)
(* step follows the arrows of the lifecycle; once a stream has ended it    *)
(* stays ended as it ended, and a pull yields nothing, requests nothing,   *)
(* takes no event and leaves the count as it is; no step leads back to     *)
(* NotStarted; the yielded sequence only grows at its end, by a place not  *)
(* yielded before.                                                         *)
(***************************************************************************)
Lifecycle ==
    { <<"none", "created">>,
      <<"created", "paginate">>,
      <<"paginate", "events">>, <<"paginate", "done">>,
      <<"events", "events">>, <<"events", "yielded">>, <<"events", "paginate">>,
      <<"events", "done">>,
      <<"yielded", "events">>, <<"yielded", "done">>,
      <<"done", "done">> }

C12_Lifecycle ==
    /\ [](\A s \in Streams :
            /\ pc[s] = "done" <=> term[s] \in {"Exhausted", "Capped", "Failed"}
            /\ pc[s] # "done" <=> term[s] = "none"
            /\ \A i, j \in 1..Len(out[s]) : i # j => out[s][i] # out[s][j])
    /\ [][\A s \in Streams :
            /\ pc'[s] # pc[s] => <<pc[s], pc'[s]>> \in Lifecycle
            /\ pc'[s] = "created" => pc[s] \in {"none", "created"}
            /\ pc[s] = "done" =>
                  /\ pc'[s] = "done"
                  /\ term'[s] = term[s]
                  /\ err'[s] = err[s]
                  /\ out'[s] = out[s]
                  /\ shown'[s] = shown[s]
                  /\ reqLog'[s] = reqLog[s]
                  /\ paginatorCalls'[s] = paginatorCalls[s]
                  /\ seen'[s] = seen[s]
                  /\ lastResult'[s] \in {lastResult[s], "StopIteration"}
            /\ out'[s] # out[s] =>
                  /\ Len(out'[s]) = Len(out[s]) + 1
                  /\ SubSeq(out'[s], 1, Len(out[s])) = out[s]
                  /\ out'[s][Len(out'[s])] \notin Range(out[s])]_vars

\* a stream that failed on an event after yielding another, pulled again
\* since: the pull gave StopIteration
C12_Witness ==
    /\ term[1] = "Failed"
    /\ err[1] = "KeyError"
    /\ Len(out[1]) >= 1
    /\ lastResult[1] = "StopIteration"

(***************************************************************************)
(* C13.  The call of retrieve_logs does no work.  From the call until the  *)
(* consumer's first pull the client has been asked for no paginator,       *)
(* paginate has not been called, no page has been requested and no event   *)
(* has been taken or yielded; the call itself changes none of this, and    *)
(* the first call to the client is made by the step that runs the          *)
(* generator for the first time.  A stream that is never pulled stays so.  *)
(***************************************************************************)
NothingDone(s) ==
    /\ paginatorCalls[s] = 0
    /\ IsNone(paginateArgs[s])
    /\ reqLog[s] = <<>>
    /\ pageIdx[s] = 0
    /\ pageLens[s] = <<>>
    /\ seen[s] = <<>>
    /\ out[s] = <<>>
    /\ IsNone(event[s])
    /\ lastResult[s] = "none"

C13_CreationDoesNoWork ==
    /\ [](\A s \in Streams : pc[s] \in {"none", "created"} => NothingDone(s))
    /\ [][\A s \in Streams :
            /\ pc[s] = "none" /\ pc'[s] # "none"
               => pc'[s] = "created" /\ NothingDone(s)'
            /\ pc[s] = "created" /\ pc'[s] = "created" => NothingDone(s)'
            /\ ~NothingDone(s)' /\ NothingDone(s)
               => /\ pc[s] = "created"
                  /\ pc'[s] = "paginate"
                  /\ paginatorCalls'[s] = 1
                  /\ reqLog'[s] = <<>>]_vars

\* a capped stream without Lambda messages has been made and not pulled
C13_Witness ==
    /\ pc[1] = "created"
    /\ ~include[1]
    /\ maxEntries[1] = PyInt(1)
    /\ NothingDone(1)

(***************************************************************************)
(* C14.  Over a finite source, with a consumer that keeps pulling, a       *)
(* stream that has been made ends: it reaches Exhausted, Capped or Failed, *)
(* however many events or pages in a row the filter skips within a pull.   *)
(***************************************************************************)
C14_Terminates ==
    \A s \in SoloStreams :
        pc[s] = "created" ~> (pc[s] = "done" /\ term[s] \in {"Exhausted", "Capped", "Failed"})

\* every event of two full pages was skipped within one pull, and the stream
\* ended without having yielded
C14_Witness ==
    /\ ~include[1]
    /\ term[1] = "Exhausted"
    /\ pageLens[1] = <<MaxPageLen, MaxPageLen>>
    /\ Len(seen[1]) = 2 * MaxPageLen
    /\ out[1] = <<>>
    /\ lastResult[1] = "StopIteration"

(***************************************************************************)
(* C15.  With max_entries = k set, a stream that has ended without an      *)
(* exception over a source with fewer than k events to be let through has  *)
(* ended Exhausted, by StopIteration, not Capped: it has yielded every one *)
(* of those events, taken every event of every page and requested every    *)
(* page once, in order.  Over a source that does not fail and whose events *)
(* have their fields no exception ends the stream.                         *)
(***************************************************************************)
C15_FewerThanTheCap ==
    /\ [](\A s \in Streams :
            /\ ~IsNone(maxEntries[s])
            /\ Len(EligibleRefs(s)) < maxEntries[s].int
            /\ pc[s] = "done"
            /\ err[s] = "none"
            => /\ term[s] = "Exhausted"
               /\ lastResult[s] = "StopIteration"
               /\ out[s] = EligibleRefs(s)
               /\ Refs(seen[s]) = AllRefs(pageLens[s])
               /\ reqLog[s] = UpTo(Len(pageLens[s])))
    /\ [][\A s \in Streams :
            /\ err'[s] # "none" /\ err[s] = "none"
               => err'[s] = "SourceError" \/ Malformed(rawEvent'[s])
            /\ /\ ~IsNone(maxEntries[s])
               /\ Len(EligibleRefs(s)') < maxEntries[s].int
               => term'[s] # "Capped"]_vars

\* max_entries = 2 over two pages with one event to be let through between
\* them: that event was yielded and the stream ended Exhausted
C15_Witness ==
    /\ maxEntries[1] = PyInt(2)
    /\ term[1] = "Exhausted"
    /\ Len(out[1]) = 1
    /\ Len(pageLens[1]) = 2
    /\ Len(seen[1]) >= 2
    /\ reqLog[1] = <<1, 2>>

(***************************************************************************)
(* C16.  Two streams over the same source do not affect each other.  What  *)
(* a stream does when it runs alone is fixed by the source as it was       *)
(* delivered and the stream's own arguments: event after event, in order,  *)
(* it skips, fails or yields, and it stops at its cap.  In every           *)
(* interleaving each stream has yielded a prefix of what it yields alone;  *)
(* when it has ended it has yielded all of it and ended the same way; the  *)
(* event at a yield is the normalisation of the event as delivered; and    *)
(* its count is the number of its own yields.                              *)
(***************************************************************************)
PlacesOf(pages) == AllRefs([p \in 1..Len(pages) |-> Len(pages[p])])

RECURSIVE AloneFrom(_, _, _, _, _)
AloneFrom(src, incl, max, i, acc) ==
    LET places == PlacesOf(src.pages)
    IN  IF i > Len(places)
        THEN [out |-> acc, term |-> IF src.fails THEN "Failed" ELSE "Exhausted"]
        ELSE LET ev == src.pages[places[i][1]][places[i][2]]
                 f == FilterOutcome(incl, ev)
             IN  IF f = "skip" THEN AloneFrom(src, incl, max, i + 1, acc)
                 ELSE IF f = "KeyError" \/ Normalize(ev).error # "none"
                      THEN [out |-> acc, term |-> "Failed"]
                 ELSE IF CapReached(max, Len(acc) + 1)
                      THEN [out |-> Append(acc, places[i]), term |-> "Capped"]
                 ELSE AloneFrom(src, incl, max, i + 1, Append(acc, places[i]))

Alone(s) == AloneFrom(source, include[s], maxEntries[s], 1, <<>>)

IsPrefix(a, b) == Len(a) <= Len(b) /\ SubSeq(b, 1, Len(a)) = a

C16_StreamsIndependent ==
    ~IsNone(source) =>
        \A s \in Streams :
            pc[s] # "none" =>
                /\ IsPrefix(out[s], Alone(s).out)
                /\ pc[s] = "done" =>
                      /\ out[s] = Alone(s).out
                      /\ term[s] = Alone(s).term
                /\ pc[s] = "yielded" =>
                      event[s] = Normalize(source.pages[LastRef(s)[1]][LastRef(s)[2]]).event
                /\ shown[s] \in {Len(out[s]), Len(out[s]) - 1}

\* over a source that holds its dicts, stream 1 has yielded the first event
\* and stream 2, which alone yields the same event, has failed on it
C16_Witness ==
    /\ ~IsNone(source)
    /\ source.held
    /\ Len(out[1]) >= 1
    /\ include[2]
    /\ Alone(2).term # "Failed"
    /\ term[2] = "Failed"
    /\ err[2] = "TypeError"
    /\ out[2] = <<>>

====
